---- MODULE Spec2Model ----
(***************************************************************************)
(* Model of src/cpp/src/policy.cc: a multi-level feedback queue policy     *)
(* with deadline-aware selection.  The program state is the logical clock  *)
(* g_currentTime and the two arrays of four task queues.  A call of        *)
(* policy() is modelled by its steps in program order: one step per event  *)
(* of the batch (lines 98-136), then one step for the rest of the call     *)
(* (lines 93-95 and 138-164).  The arguments currentCpuTask and            *)
(* currentIoTask are read at lines 94, 95 and 151 only and no event        *)
(* handler reads resultAction, so the model draws them in that last step.  *)
(***************************************************************************)
EXTENDS Integers, Sequences, FiniteSets, TLC

\* ------------------------------------------------------------ constants
NUM_PRIORITY_QUEUES == 4
\* Scores are kept in tenths, so the factors 0.4 and 1.0 are 4 and 10.
IO_END_PRIORITY_BOOST_FACTOR == 4
REGULAR_TASK_PRIORITY_FACTOR == 10
OVERDUE_PENALTY_SCORE == 100000
IDLE_TASK_ID == 0

\* ------------------------------------------------------- input domains
\* Task ids the driver hands out (0 is the idle id and never a task).
TaskIds == {5, 7}
\* Deadlines the two tasks can be created with (task 5, task 7): an overdue
\* and an on-time one at time 5, equal ones, and a very distant one.
DeadlinePairs == { <<10, 2>>, <<10, 10>>, <<100010, 2>> }
\* Timestamps an event can carry.
Times == {5, 12}
\* Most events of one run that break the task lifecycle (Spec only), and the
\* ids such events are for (the code treats all ids alike).
MaxRogue == 1
RogueIds == {7}

Levels == 0 .. (NUM_PRIORITY_QUEUES - 1)
Priorities == {"kHigh", "kLow"}
Statuses == {"kNormal", "kIoEnd"}
Occupants == TaskIds \cup {IDLE_TASK_ID}

\* Event::Task, the fields policy.cc reads.
Task(id, prio, dl, st) ==
  [taskId |-> id, priority |-> prio, deadline |-> dl, status |-> st]

\* The value of an empty std::optional<Event::Task>.
NoTask == [has |-> FALSE, task |-> Task(IDLE_TASK_ID, "kHigh", 0, "kNormal"), from |-> 0]

EmptyQueues == [i \in Levels |-> << >>]

\* Event, the fields the event loop reads, and whether the array the handler
\* erases from (the CPU array for an Arrival, which erases nothing) held the id.
Event(type, id, time, queued) ==
  [type |-> type, id |-> id, time |-> time, queued |-> queued]
NoEvent == Event("none", IDLE_TASK_ID, 0, FALSE)

VARIABLES
  g_currentTime,     \* int g_currentTime
  g_cpuTaskQueues,   \* std::vector<Event::Task> g_cpuTaskQueues[4]
  g_ioTaskQueues,    \* std::vector<Event::Task> g_ioTaskQueues[4]
  pc,                \* "idle": never called, "fold": in the event loop, "ret": returned
  currentCpuTask,    \* argument of the call that returned
  currentIoTask,     \* argument of the call that returned
  resultAction,      \* Action resultAction, as returned
  tasks,             \* the driver's task table: id -> priority and deadline
  arrived,           \* ids for which an Arrival was folded
  finished,          \* ids whose Finish was folded, with no Arrival or IoEnd since
  ioReqPending,      \* ids put in the IO array by IoRequest and not selected since
  ioEndPending,      \* ids put in the CPU array by IoEnd and not selected since
  rogue,             \* number of folded events that broke the task lifecycle
  quiet,             \* the driver has stopped putting tasks in the CPU array (SpecLive only)
  batchEmpty,        \* the call that returned had an empty batch
  foldedCpu,         \* g_cpuTaskQueues when event folding ended
  foldedIo,          \* g_ioTaskQueues when event folding ended
  chosenCpu,         \* chosenCpuTask of the CPU loop, with the level it came from
  chosenIo,          \* chosenIoTask of the IO loop, with the level it came from
  lastEvent          \* in the event loop: type and task id of the event just folded

vars == << g_currentTime, g_cpuTaskQueues, g_ioTaskQueues, pc, currentCpuTask,
           currentIoTask, resultAction, tasks, arrived, finished, ioReqPending,
           ioEndPending, rogue, quiet, batchEmpty, foldedCpu, foldedIo, chosenCpu,
           chosenIo, lastEvent >>

\* ------------------------------------------------------------- helpers
Tenths(n) == 10 * n

SeqRange(s) == { s[k] : k \in 1 .. Len(s) }

\* Ids queued at one level, in one array.
IdsAt(queues, i) == { queues[i][k].taskId : k \in 1 .. Len(queues[i]) }
IdsIn(queues) == UNION { IdsAt(queues, i) : i \in Levels }
LevelsOf(queues, id) == { i \in Levels : id \in IdsAt(queues, i) }

RECURSIVE SumLen(_, _)
SumLen(queues, i) ==
  IF i >= NUM_PRIORITY_QUEUES THEN 0 ELSE Len(queues[i]) + SumLen(queues, i + 1)
Entries(queues) == SumLen(queues, 0)

\* Number of entries with this id, over all levels.
RECURSIVE CountId(_, _, _)
CountId(queues, id, i) ==
  IF i >= NUM_PRIORITY_QUEUES THEN 0
  ELSE Len(SelectSeq(queues[i], LAMBDA t : t.taskId = id)) + CountId(queues, id, i + 1)

\* The erase left out.
EraseIdNothing(q, taskId) == q

\* An erase of the position found, the last one when the id is not there.
EraseIdOrLast(q, taskId) ==
  IF q # << >> /\ \A k \in 1 .. Len(q) : q[k].taskId # taskId
  THEN SubSeq(q, 1, Len(q) - 1)
  ELSE SelectSeq(q, LAMBDA t : t.taskId # taskId)

\* erase(remove_if(... t.taskId == taskId ...)) on one vector.
EraseId(q, taskId) == SelectSeq(q, LAMBDA t : t.taskId # taskId)

\* The loop over the queues stopping after queue 0.
removeTaskFromFirstQueue(queues, taskId) ==
  [i \in Levels |-> IF i = 0 THEN EraseId(queues[i], taskId) ELSE queues[i]]

\* removeTaskFromQueues, lines 25-32.
removeTaskFromQueues(queues, taskId) ==
  [i \in Levels |-> EraseId(queues[i], taskId)]

\* The task put at the front of the vector.
PushFront(queues, level, task) ==
  [queues EXCEPT ![level] = << task >> \o @]

\* queues[level].push_back(task)
PushBack(queues, level, task) ==
  [queues EXCEPT ![level] = Append(@, task)]

\* Every priority put in queue 0.
InsertLevelTop(priority) == 0

\* (priority == kHigh) ? 0 : 2, lines 106, 112, 119.
InsertLevel(priority) == IF priority = "kHigh" THEN 0 ELSE 2

\* The status of the task not looked at.
FactorNoBoost(task) == REGULAR_TASK_PRIORITY_FACTOR

\* The factor of an on-time task, lines 54-60.
Factor(task) ==
  IF task.status = "kIoEnd" THEN IO_END_PRIORITY_BOOST_FACTOR
  ELSE REGULAR_TASK_PRIORITY_FACTOR

\* The overdue branch without the penalty.
ScoreNoPenalty(task, currentTime) ==
  IF task.deadline > currentTime
  THEN Factor(task) * (task.deadline - currentTime)
  ELSE Tenths(task.deadline - currentTime)

\* The overdue branch adding the time overdue instead of the (negative) gap.
ScoreOverdueAge(task, currentTime) ==
  IF task.deadline > currentTime
  THEN Factor(task) * (task.deadline - currentTime)
  ELSE Tenths(OVERDUE_PENALTY_SCORE + (currentTime - task.deadline))

\* score of one task, lines 52-64, in tenths.
Score(task, currentTime) ==
  IF task.deadline > currentTime
  THEN Factor(task) * (task.deadline - currentTime)
  ELSE Tenths(OVERDUE_PENALTY_SCORE + (task.deadline - currentTime))

\* The loop passing over overdue tasks.
RECURSIVE ScanLevelOnTimeOnly(_, _, _)
ScanLevelOnTimeOnly(q, n, currentTime) ==
  IF n = 0 THEN 0
  ELSE LET best == ScanLevelOnTimeOnly(q, n - 1, currentTime)
       IN  IF q[n].deadline <= currentTime THEN best
           ELSE IF best = 0 THEN n
           ELSE IF Score(q[n], currentTime) < Score(q[best], currentTime) THEN n
           ELSE best

\* The loop replacing the selection on an equal score too.
RECURSIVE ScanLevelLastMin(_, _, _)
ScanLevelLastMin(q, n, currentTime) ==
  IF n = 0 THEN 0
  ELSE LET best == ScanLevelLastMin(q, n - 1, currentTime)
       IN  IF best = 0 THEN n
           ELSE IF Score(q[n], currentTime) <= Score(q[best], currentTime) THEN n
           ELSE best

\* The loop of lines 49-71 over q[1..n]: the index of the entry held in
\* selectedTask after n iterations (0: none).  minScore starts at the largest
\* double, which every score is below, and is replaced on a strictly smaller score.
RECURSIVE ScanLevel(_, _, _)
ScanLevel(q, n, currentTime) ==
  IF n = 0 THEN 0
  ELSE LET best == ScanLevel(q, n - 1, currentTime)
       IN  IF best = 0 THEN n
           ELSE IF Score(q[n], currentTime) < Score(q[best], currentTime) THEN n
           ELSE best

\* selectAndMigrateTask, lines 42-83: the queues afterwards and the optional.
selectAndMigrateTask(taskQueues, fromLevel, toLevel, currentTime) ==
  LET k == ScanLevel(taskQueues[fromLevel], Len(taskQueues[fromLevel]), currentTime)
  IN  IF k = 0
      THEN [queues |-> taskQueues, selected |-> NoTask]
      ELSE LET sel == taskQueues[fromLevel][k]
               erased == [taskQueues EXCEPT ![fromLevel] = EraseId(@, sel.taskId)]
           IN  [queues |-> PushBack(erased, toLevel, sel),
                selected |-> [has |-> TRUE, task |-> sel, from |-> fromLevel]]

\* The next level without the wrap to level 0.
NextLevelNoWrap(i) == IF i = NUM_PRIORITY_QUEUES - 1 THEN i ELSE i + 1

\* A selected task sent back to level 0.
NextLevelTop(i) == 0

\* nextLevel, lines 142 and 155.
NextLevel(i) == IF i = NUM_PRIORITY_QUEUES - 1 THEN 0 ELSE i + 1

\* The loops of lines 140-148 and 153-161, from level i on.
RECURSIVE SelectionLoop(_, _, _)
SelectionLoop(queues, i, currentTime) ==
  IF i >= NUM_PRIORITY_QUEUES
  THEN [queues |-> queues, selected |-> NoTask]
  ELSE LET r == selectAndMigrateTask(queues, i, NextLevel(i), currentTime)
       IN  IF r.selected.has THEN r
           ELSE SelectionLoop(r.queues, i + 1, currentTime)

\* The task tables of the driver.
TaskTables ==
  { [id \in TaskIds |->
       [priority |-> IF id = 5 THEN p5 ELSE p7,
        deadline |-> IF id = 5 THEN d[1] ELSE d[2]]] :
    p5 \in Priorities, p7 \in Priorities, d \in DeadlinePairs }

\* The task tables of a driver of three High tasks: deadlines 10 and 10, and
\* 7 or 10, so that at time 5 a boosted score 0.4 * 5 meets a score 1.0 * 2.
TrioIds == {5, 7, 9}
TrioTables ==
  { [id \in TrioIds |->
       [priority |-> "kHigh", deadline |-> IF id = 5 THEN d ELSE 10]] : d \in {7, 10} }

\* The snapshot an event carries for a task id: the driver's task, status Normal.
Snapshot(id) == Task(id, tasks[id].priority, tasks[id].deadline, "kNormal")

\* ------------------------------------------------------------- actions
InitWith(tables) ==
  /\ g_currentTime = 0
  /\ g_cpuTaskQueues = EmptyQueues
  /\ g_ioTaskQueues = EmptyQueues
  /\ pc = "idle"
  /\ currentCpuTask = IDLE_TASK_ID
  /\ currentIoTask = IDLE_TASK_ID
  /\ resultAction = [cpuTask |-> IDLE_TASK_ID, ioTask |-> IDLE_TASK_ID]
  /\ tasks \in tables
  /\ rogue = 0
  /\ quiet = FALSE
  /\ arrived = {}
  /\ finished = {}
  /\ ioReqPending = {}
  /\ ioEndPending = {}
  /\ batchEmpty = TRUE
  /\ foldedCpu = EmptyQueues
  /\ foldedIo = EmptyQueues
  /\ chosenCpu = NoTask
  /\ chosenIo = NoTask
  /\ lastEvent = NoEvent

\* The program at start, with a driver of two tasks.
Init == InitWith(TaskTables)

\* One iteration of the event loop, line 98: the call is in the loop, and what
\* the previous call left behind (its arguments, locals and result) is gone.
FoldFrame ==
  /\ pc' = "fold"
  /\ currentCpuTask' = IDLE_TASK_ID
  /\ currentIoTask' = IDLE_TASK_ID
  /\ batchEmpty' = FALSE
  /\ foldedCpu' = EmptyQueues
  /\ foldedIo' = EmptyQueues
  /\ chosenCpu' = NoTask
  /\ chosenIo' = NoTask
  /\ UNCHANGED << tasks, resultAction, quiet >>

\* An event that follows the lifecycle is always accepted; one that breaks it
\* only where the driver is not held to the lifecycle, and MaxRogue times.
Admit(lifecycle, id, follows) ==
  /\ follows \/ (~lifecycle /\ rogue < MaxRogue /\ id \in RogueIds)
  /\ rogue' = IF follows THEN rogue ELSE rogue + 1

\* kTaskArrival, lines 99-107.  lifecycle: the driver sends one Arrival per id.
FoldArrival(lifecycle) ==
  /\ \E time \in Times, id \in DOMAIN tasks :
       /\ Admit(lifecycle, id, id \notin arrived)
       /\ g_currentTime' = time
       /\ g_cpuTaskQueues' =
            PushBack(g_cpuTaskQueues, InsertLevel(Snapshot(id).priority), Snapshot(id))
       /\ arrived' = arrived \cup {id}
       /\ finished' = finished \ {id}
       /\ lastEvent' = Event("kTaskArrival", id, time, id \in IdsIn(g_cpuTaskQueues))
  /\ FoldFrame
  /\ UNCHANGED << g_ioTaskQueues, ioReqPending, ioEndPending >>

\* kIoRequest, lines 99-100 and 109-113.  lifecycle: only for an id in the CPU array.
FoldIoRequest(lifecycle) ==
  /\ \E time \in Times, id \in DOMAIN tasks :
       /\ Admit(lifecycle, id, id \in IdsIn(g_cpuTaskQueues) /\ id \notin finished)
       /\ g_currentTime' = time
       /\ g_cpuTaskQueues' = removeTaskFromQueues(g_cpuTaskQueues, id)
       /\ g_ioTaskQueues' =
            PushBack(g_ioTaskQueues, InsertLevel(Snapshot(id).priority), Snapshot(id))
       /\ ioReqPending' = ioReqPending \cup {id}
       /\ ioEndPending' = ioEndPending \ {id}
       /\ lastEvent' = Event("kIoRequest", id, time, id \in IdsIn(g_cpuTaskQueues))
  /\ FoldFrame
  /\ UNCHANGED << arrived, finished >>

\* kIoEnd, lines 99-100 and 115-120.  lifecycle: only for an id in the IO array.
FoldIoEnd(lifecycle) ==
  /\ \E time \in Times, id \in DOMAIN tasks :
       /\ Admit(lifecycle, id, id \in IdsIn(g_ioTaskQueues) /\ id \notin finished)
       /\ g_currentTime' = time
       /\ g_ioTaskQueues' = removeTaskFromQueues(g_ioTaskQueues, id)
       /\ g_cpuTaskQueues' =
            PushBack(g_cpuTaskQueues, InsertLevel(Snapshot(id).priority),
                     [Snapshot(id) EXCEPT !.status = "kIoEnd"])
       /\ ioEndPending' = ioEndPending \cup {id}
       /\ ioReqPending' = ioReqPending \ {id}
       /\ finished' = finished \ {id}
       /\ lastEvent' = Event("kIoEnd", id, time, id \in IdsIn(g_ioTaskQueues))
  /\ FoldFrame
  /\ UNCHANGED << arrived >>

\* The Finish case erasing the id from both arrays.
FoldFinishBothArrays(lifecycle) ==
  /\ \E time \in Times, id \in DOMAIN tasks :
       /\ Admit(lifecycle, id, id \in IdsIn(g_cpuTaskQueues) /\ id \notin finished)
       /\ g_currentTime' = time
       /\ g_cpuTaskQueues' = removeTaskFromQueues(g_cpuTaskQueues, id)
       /\ g_ioTaskQueues' = removeTaskFromQueues(g_ioTaskQueues, id)
       /\ finished' = finished \cup {id}
       /\ ioEndPending' = ioEndPending \ {id}
       /\ lastEvent' = Event("kTaskFinish", id, time, id \in IdsIn(g_cpuTaskQueues))
  /\ FoldFrame
  /\ UNCHANGED << arrived, ioReqPending >>

\* kTaskFinish, lines 99-100 and 122-125.  lifecycle: only for an id in the CPU array.
FoldFinish(lifecycle) ==
  /\ \E time \in Times, id \in DOMAIN tasks :
       /\ Admit(lifecycle, id, id \in IdsIn(g_cpuTaskQueues) /\ id \notin finished)
       /\ g_currentTime' = time
       /\ g_cpuTaskQueues' = removeTaskFromQueues(g_cpuTaskQueues, id)
       /\ finished' = finished \cup {id}
       /\ ioEndPending' = ioEndPending \ {id}
       /\ lastEvent' = Event("kTaskFinish", id, time, id \in IdsIn(g_cpuTaskQueues))
  /\ FoldFrame
  /\ UNCHANGED << g_ioTaskQueues, arrived, ioReqPending >>

\* The Timer case left before the clock is set.
FoldTimerNoClock ==
  /\ \E time \in Times : lastEvent' = Event("kTimer", IDLE_TASK_ID, time, FALSE)
  /\ FoldFrame
  /\ UNCHANGED << g_currentTime, g_cpuTaskQueues, g_ioTaskQueues, arrived, finished,
                  ioReqPending, ioEndPending, rogue >>

\* kTimer, lines 99-100 and 127-130.
FoldTimer ==
  /\ \E time \in Times :
       /\ g_currentTime' = time
       /\ lastEvent' = Event("kTimer", IDLE_TASK_ID, time, FALSE)
  /\ FoldFrame
  /\ UNCHANGED << g_cpuTaskQueues, g_ioTaskQueues, arrived, finished, ioReqPending,
                  ioEndPending, rogue >>

\* The CPU loop reporting an idle CPU when it selects nothing.
CpuPassResetsIdle(queues, currentTime, action) ==
  LET r == SelectionLoop(queues, 0, currentTime)
  IN  [queues |-> r.queues, chosen |-> r.selected,
       action |-> [action EXCEPT !.cpuTask =
                     IF r.selected.has THEN r.selected.task.taskId ELSE IDLE_TASK_ID]]

\* The CPU selection loop, lines 140-148, on resultAction as lines 94-95 set it.
CpuPass(queues, currentTime, action) ==
  LET r == SelectionLoop(queues, 0, currentTime)
  IN  [queues |-> r.queues, chosen |-> r.selected,
       action |-> IF r.selected.has
                  THEN [action EXCEPT !.cpuTask = r.selected.task.taskId]
                  ELSE action]

\* The IO loop without the guard of line 151.
IoPassAlways(queues, currentTime, action, io) ==
  LET r == SelectionLoop(queues, 0, currentTime)
  IN  [queues |-> r.queues, chosen |-> r.selected,
       action |-> IF r.selected.has
                  THEN [action EXCEPT !.ioTask = r.selected.task.taskId]
                  ELSE action]

\* The IO selection loop and its guard, lines 151-162.
IoPass(queues, currentTime, action, io) ==
  IF io = IDLE_TASK_ID
  THEN LET r == SelectionLoop(queues, 0, currentTime)
       IN  [queues |-> r.queues, chosen |-> r.selected,
            action |-> IF r.selected.has
                       THEN [action EXCEPT !.ioTask = r.selected.task.taskId]
                       ELSE action]
  ELSE [queues |-> queues, chosen |-> NoTask, action |-> action]

\* The rest of the call once the event loop has ended: lines 93-95 and
\* 138-164, with the arguments drawn from the ids the driver can pass.
PolicyCall(cpuArgs, ioArgs) ==
  /\ \E cpu \in cpuArgs, io \in ioArgs :
       \E c \in {CpuPass(g_cpuTaskQueues, g_currentTime, [cpuTask |-> cpu, ioTask |-> io])} :
         \E d \in {IoPass(g_ioTaskQueues, g_currentTime, c.action, io)} :
           /\ currentCpuTask' = cpu
           /\ currentIoTask' = io
           /\ g_cpuTaskQueues' = c.queues
           /\ chosenCpu' = c.chosen
           /\ g_ioTaskQueues' = d.queues
           /\ chosenIo' = d.chosen
           /\ resultAction' = d.action
           /\ ioEndPending' =
                IF c.chosen.has THEN ioEndPending \ {c.chosen.task.taskId}
                ELSE ioEndPending
           /\ ioReqPending' =
                IF d.chosen.has THEN ioReqPending \ {d.chosen.task.taskId}
                ELSE ioReqPending
  /\ foldedCpu' = g_cpuTaskQueues
  /\ foldedIo' = g_ioTaskQueues
  /\ batchEmpty' = (pc # "fold")
  /\ pc' = "ret"
  /\ lastEvent' = NoEvent
  /\ UNCHANGED << g_currentTime, tasks, arrived, finished, rogue, quiet >>

\* A driver that passes idle or the id the previous call returned.
PolicySelect ==
  PolicyCall({IDLE_TASK_ID, resultAction.cpuTask}, {IDLE_TASK_ID, resultAction.ioTask})

\* A driver that passes the ids the previous call returned (0 at first).
PolicySelectChained ==
  PolicyCall({resultAction.cpuTask}, {resultAction.ioTask})

\* Any events: the code accepts every batch.
Next ==
  \/ FoldArrival(FALSE)
  \/ FoldIoRequest(FALSE)
  \/ FoldIoEnd(FALSE)
  \/ FoldFinish(FALSE)
  \/ FoldTimer
  \/ PolicySelect

Spec == Init /\ [][Next]_vars

\* Events that follow the task lifecycle.
NextLC ==
  \/ FoldArrival(TRUE)
  \/ FoldIoRequest(TRUE)
  \/ FoldIoEnd(TRUE)
  \/ FoldFinish(TRUE)
  \/ FoldTimer
  \/ PolicySelect

SpecLC == Init /\ [][NextLC]_vars

\* Lifecycle events, and the occupants passed are those returned last.
NextChained ==
  \/ FoldArrival(TRUE)
  \/ FoldIoRequest(TRUE)
  \/ FoldIoEnd(TRUE)
  \/ FoldFinish(TRUE)
  \/ FoldTimer
  \/ PolicySelectChained

SpecChained == Init /\ [][NextChained]_vars

\* Lifecycle events of a driver of three tasks.
InitTrio == InitWith(TrioTables)

SpecTrio == InitTrio /\ [][NextLC]_vars

\* The driver stops creating tasks and completing IO operations.
GoQuiet ==
  /\ ~quiet
  /\ quiet' = TRUE
  /\ UNCHANGED << g_currentTime, g_cpuTaskQueues, g_ioTaskQueues, pc, currentCpuTask,
                  currentIoTask, resultAction, tasks, arrived, finished, ioReqPending,
                  ioEndPending, rogue, batchEmpty, foldedCpu, foldedIo, chosenCpu,
                  chosenIo, lastEvent >>

\* Lifecycle events, with a driver whose first batch holds every Arrival and
\* IoEnd of the run, and which calls policy() for ever.
NextLive ==
  \/ (~quiet /\ FoldArrival(TRUE))
  \/ FoldIoRequest(TRUE)
  \/ (~quiet /\ FoldIoEnd(TRUE))
  \/ FoldFinish(TRUE)
  \/ FoldTimer
  \/ (quiet /\ PolicySelect)
  \/ GoQuiet

\* The runs of the liveness specification: an overdue and an on-time task of one priority.
InitLive ==
  /\ Init
  /\ tasks[5].deadline = 10
  /\ tasks[7].deadline = 2
  /\ tasks[5].priority = tasks[7].priority

SpecLive ==
  InitLive /\ [][NextLive]_vars /\ WF_vars(GoQuiet) /\ WF_vars(quiet /\ PolicySelect)

TypeOK ==
  /\ g_currentTime \in Times \cup {0}
  /\ pc \in {"idle", "fold", "ret"}
  /\ currentCpuTask \in DOMAIN tasks \cup {IDLE_TASK_ID}
  /\ currentIoTask \in DOMAIN tasks \cup {IDLE_TASK_ID}
  /\ rogue \in 0 .. MaxRogue
  /\ quiet \in BOOLEAN

\* ---------------------------------------------------------- properties
Returned == pc = "ret"
OnTime(t) == t.deadline > g_currentTime
Overdue(t) == t.deadline <= g_currentTime
\* The level a pass picked from, as event folding left it.
PickedFrom(folded, chosen) == folded[chosen.from]
Mixed(q) == (\E k \in 1 .. Len(q) : OnTime(q[k])) /\ (\E k \in 1 .. Len(q) : Overdue(q[k]))
AllOverdueDistinct(q) ==
  /\ Len(q) >= 2
  /\ \A k \in 1 .. Len(q) : Overdue(q[k])
  /\ \A k, m \in 1 .. Len(q) : k # m => q[k].deadline # q[m].deadline
\* Every on-time deadline is less than the penalty above every overdue one.
NearDeadlines(q) ==
  \A k, m \in 1 .. Len(q) :
    (OnTime(q[k]) /\ Overdue(q[m])) => q[k].deadline - q[m].deadline < OVERDUE_PENALTY_SCORE
LevelByPriority(id) == IF tasks[id].priority = "kHigh" THEN 0 ELSE 2

\* C1: under lifecycle events each task id has at most one entry, over all
\* levels of both arrays together.
C1_QueueUniqueness ==
  \A id \in TaskIds :
    CountId(g_cpuTaskQueues, id, 0) + CountId(g_ioTaskQueues, id, 0) <= 1

\* Both tasks queued, one migrated in the CPU array and one in the IO array.
C1_Witness ==
  /\ Returned
  /\ IdsIn(g_cpuTaskQueues) = {5}
  /\ LevelsOf(g_cpuTaskQueues, 5) = {3}
  /\ IdsIn(g_ioTaskQueues) = {7}

\* C2 as claimed: a pass that picks from a level holding an on-time and an
\* overdue task selects an on-time task, whatever the deadlines and the clock.
C2_OnTimeFirstAlways ==
  Returned =>
    /\ (chosenCpu.has /\ Mixed(PickedFrom(foldedCpu, chosenCpu))) => OnTime(chosenCpu.task)
    /\ (chosenIo.has /\ Mixed(PickedFrom(foldedIo, chosenIo))) => OnTime(chosenIo.task)

\* C2 amended: the same when every on-time deadline of the level is less than
\* 100000 above every overdue one; and tasks 5 (deadline 10) and 7 (deadline 2)
\* at CPU level 0 at time 5 give task 5, moved to level 1, task 7 left at level 0.
C2_OnTimeFirstNear ==
  Returned =>
    /\ (chosenCpu.has /\ Mixed(PickedFrom(foldedCpu, chosenCpu))
          /\ NearDeadlines(PickedFrom(foldedCpu, chosenCpu))) => OnTime(chosenCpu.task)
    /\ (chosenIo.has /\ Mixed(PickedFrom(foldedIo, chosenIo))
          /\ NearDeadlines(PickedFrom(foldedIo, chosenIo))) => OnTime(chosenIo.task)
    /\ (/\ g_currentTime = 5
        /\ IdsAt(foldedCpu, 0) = {5, 7}
        /\ tasks[5].deadline = 10
        /\ tasks[7].deadline = 2)
       => /\ resultAction.cpuTask = 5
          /\ LevelsOf(g_cpuTaskQueues, 5) = {1}
          /\ LevelsOf(g_cpuTaskQueues, 7) = {0}

\* The example of the claim has happened.
C2_Witness ==
  /\ Returned
  /\ g_currentTime = 5
  /\ IdsAt(foldedCpu, 0) = {5, 7}
  /\ tasks[5].deadline = 10
  /\ tasks[7].deadline = 2
  /\ chosenCpu.has
  /\ chosenCpu.task.taskId = 5

\* C3 as claimed: from a level holding only overdue tasks with distinct
\* deadlines a pass selects the task with the largest deadline.
C3_LeastOverdueWins ==
  Returned =>
    /\ (chosenCpu.has /\ AllOverdueDistinct(PickedFrom(foldedCpu, chosenCpu)))
         => \A t \in SeqRange(PickedFrom(foldedCpu, chosenCpu)) :
              t.deadline <= chosenCpu.task.deadline
    /\ (chosenIo.has /\ AllOverdueDistinct(PickedFrom(foldedIo, chosenIo)))
         => \A t \in SeqRange(PickedFrom(foldedIo, chosenIo)) :
              t.deadline <= chosenIo.task.deadline

\* C3 amended: from such a level a pass selects the task with the smallest
\* deadline, the most overdue one.
C3_MostOverdueWins ==
  Returned =>
    /\ (chosenCpu.has /\ AllOverdueDistinct(PickedFrom(foldedCpu, chosenCpu)))
         => \A t \in SeqRange(PickedFrom(foldedCpu, chosenCpu)) :
              t.deadline >= chosenCpu.task.deadline
    /\ (chosenIo.has /\ AllOverdueDistinct(PickedFrom(foldedIo, chosenIo)))
         => \A t \in SeqRange(PickedFrom(foldedIo, chosenIo)) :
              t.deadline >= chosenIo.task.deadline

\* A CPU pass has picked from a level of two overdue tasks, deadlines 10 and 2.
C3_Witness ==
  /\ Returned
  /\ chosenCpu.has
  /\ AllOverdueDistinct(PickedFrom(foldedCpu, chosenCpu))

\* C4 as claimed: an entry of the CPU array is scored with the boost factor
\* exactly while its task came back from IO and no CPU pass has selected it since.
C4_BoostOnlyUntilSelected ==
  \A i \in Levels : \A t \in SeqRange(g_cpuTaskQueues[i]) :
    /\ t.taskId \in ioEndPending => Factor(t) = IO_END_PRIORITY_BOOST_FACTOR
    /\ t.taskId \notin ioEndPending => Factor(t) = REGULAR_TASK_PRIORITY_FACTOR

\* C5: a finished task, not put back by an Arrival or IoEnd since, is in no
\* level of the CPU array and is not the task a CPU pass selects.
C5_FinishRemoves ==
  \A id \in finished :
    /\ LevelsOf(g_cpuTaskQueues, id) = {}
    /\ (Returned /\ chosenCpu.has) => chosenCpu.task.taskId # id

\* A CPU pass has selected the other task after one task finished.
C5_Witness ==
  /\ Returned
  /\ finished # {}
  /\ chosenCpu.has
  /\ chosenCpu.from = 1

\* C6: under lifecycle events, from its IoRequest until the IO pass selects it
\* a task is in no CPU level and only in IO level 0 (High) or 2 (Low); from its
\* IoEnd until the CPU pass selects it, it is in no IO level and only in CPU
\* level 0 or 2, with status kIoEnd.
C6_IoRoundTrip ==
  \A id \in TaskIds :
    /\ id \in ioReqPending =>
         /\ LevelsOf(g_cpuTaskQueues, id) = {}
         /\ LevelsOf(g_ioTaskQueues, id) = {LevelByPriority(id)}
    /\ id \in ioEndPending =>
         /\ LevelsOf(g_ioTaskQueues, id) = {}
         /\ LevelsOf(g_cpuTaskQueues, id) = {LevelByPriority(id)}
         /\ \A t \in SeqRange(g_cpuTaskQueues[LevelByPriority(id)]) :
              t.taskId = id => t.status = "kIoEnd"

\* A low-priority task is back from IO while the other task waits for IO.
C6_Witness ==
  /\ pc = "fold"
  /\ \E id \in ioEndPending : tasks[id].priority = "kLow"
  /\ \E id \in ioReqPending : tasks[id].priority = "kHigh"

\* C7: under lifecycle events the task a pass selects from level i is
\* afterwards in level (i+1) mod 4 of that array and in no other, and the pass
\* drops no task from the array.
C7_MigrationRing ==
  Returned =>
    /\ chosenCpu.has =>
         /\ chosenCpu.task.taskId \in IdsAt(foldedCpu, chosenCpu.from)
         /\ LevelsOf(g_cpuTaskQueues, chosenCpu.task.taskId)
              = {(chosenCpu.from + 1) % NUM_PRIORITY_QUEUES}
    /\ chosenIo.has =>
         /\ chosenIo.task.taskId \in IdsAt(foldedIo, chosenIo.from)
         /\ LevelsOf(g_ioTaskQueues, chosenIo.task.taskId)
              = {(chosenIo.from + 1) % NUM_PRIORITY_QUEUES}
    /\ IdsIn(g_cpuTaskQueues) = IdsIn(foldedCpu)
    /\ IdsIn(g_ioTaskQueues) = IdsIn(foldedIo)

\* A task selected from level 3 is back in level 0.
C7_Witness ==
  /\ Returned
  /\ chosenCpu.has
  /\ chosenCpu.from = 3
  /\ chosenCpu.task.taskId \in IdsAt(g_cpuTaskQueues, 0)

InCpu(id) == id \in IdsIn(g_cpuTaskQueues)
SelectedByCpu(id) == Returned /\ chosenCpu.has /\ chosenCpu.task.taskId = id

\* C8 as claimed: with policy() called for ever, a task queued in the CPU
\* array is eventually selected by a CPU pass, unless a Finish or an IoRequest
\* takes it out of the array.
C8_EveryTaskSelected ==
  \A id \in TaskIds : InCpu(id) ~> (SelectedByCpu(id) \/ ~InCpu(id))

\* C8 amended: once no Arrival and no IoEnd is folded any more, a task queued
\* in CPU level 0, 1 or 2 is eventually selected by a CPU pass, unless a Finish
\* or an IoRequest takes it out of the array.
C8_LowLevelsSelected ==
  \A id \in TaskIds :
    (quiet /\ LevelsOf(g_cpuTaskQueues, id) # {} /\ LevelsOf(g_cpuTaskQueues, id) \subseteq {0, 1, 2})
      ~> (SelectedByCpu(id) \/ ~InCpu(id))

\* With the driver quiet and both tasks in the CPU array, a call with an empty
\* batch has selected a task from level 2.
C8_Witness ==
  /\ quiet
  /\ Returned
  /\ chosenCpu.has
  /\ chosenCpu.from = 2
  /\ IdsIn(g_cpuTaskQueues) = TaskIds

\* C9: the step that ends a call returns the argument for a resource whose
\* array is empty after folding; with an empty batch and empty arrays it returns
\* both arguments and changes neither the arrays nor the clock.
C9_DefaultToOccupant ==
  [][ pc' = "ret" =>
        /\ Entries(g_cpuTaskQueues) = 0 => resultAction'.cpuTask = currentCpuTask'
        /\ Entries(g_ioTaskQueues) = 0 => resultAction'.ioTask = currentIoTask'
        /\ (pc # "fold" /\ Entries(g_cpuTaskQueues) = 0 /\ Entries(g_ioTaskQueues) = 0)
             => /\ resultAction' = [cpuTask |-> currentCpuTask', ioTask |-> currentIoTask']
                /\ g_cpuTaskQueues' = g_cpuTaskQueues
                /\ g_ioTaskQueues' = g_ioTaskQueues
                /\ g_currentTime' = g_currentTime ]_vars

\* A call with an empty batch and empty arrays has returned a busy CPU argument.
C9_Witness ==
  /\ Returned
  /\ batchEmpty
  /\ Entries(foldedCpu) = 0
  /\ Entries(foldedIo) = 0
  /\ currentCpuTask # IDLE_TASK_ID
  /\ resultAction.cpuTask = currentCpuTask

\* C10: a call with a busy IO argument leaves the IO array as folding left it
\* and returns that argument; the CPU pass runs whatever the CPU argument, so a
\* non-empty CPU array gives the selected task as cpuTask.
C10_IoOnlyWhenIdle ==
  Returned =>
    /\ currentIoTask # IDLE_TASK_ID =>
         /\ g_ioTaskQueues = foldedIo
         /\ resultAction.ioTask = currentIoTask
    /\ Entries(foldedCpu) > 0 =>
         /\ chosenCpu.has
         /\ chosenCpu.task.taskId \in IdsIn(foldedCpu)
         /\ resultAction.cpuTask = chosenCpu.task.taskId
         /\ g_cpuTaskQueues # foldedCpu

\* Busy arguments for both resources, a queued IO task left alone and a CPU
\* task other than the argument selected.
C10_Witness ==
  /\ Returned
  /\ currentIoTask # IDLE_TASK_ID
  /\ Entries(foldedIo) > 0
  /\ currentCpuTask # IDLE_TASK_ID
  /\ chosenCpu.has
  /\ chosenCpu.task.taskId # currentCpuTask

\* The event just folded, and the task it is for.
Folded(type) == pc' = "fold" /\ lastEvent'.type = type
\* The call ends right after folding an event of this type.
EndsAfter(type) == pc' = "ret" /\ lastEvent.type = type

\* C11: folding an Arrival appends the task to CPU level 0 (High) or 2 (Low),
\* changes no other CPU level and no IO level; when the call ends there the CPU
\* pass scans an array that holds the task, selects a task, and selects this
\* one when no other id is queued.
C11_ArrivalPlacement ==
  [][ /\ Folded("kTaskArrival") =>
           /\ g_cpuTaskQueues'[LevelByPriority(lastEvent'.id)]
                = Append(g_cpuTaskQueues[LevelByPriority(lastEvent'.id)],
                         Task(lastEvent'.id, tasks[lastEvent'.id].priority,
                              tasks[lastEvent'.id].deadline, "kNormal"))
           /\ \A i \in Levels \ {LevelByPriority(lastEvent'.id)} :
                g_cpuTaskQueues'[i] = g_cpuTaskQueues[i]
           /\ g_ioTaskQueues' = g_ioTaskQueues
      /\ EndsAfter("kTaskArrival") =>
           /\ lastEvent.id \in IdsAt(foldedCpu', LevelByPriority(lastEvent.id))
           /\ chosenCpu'.has
           /\ IdsIn(foldedCpu') = {lastEvent.id} => resultAction'.cpuTask = lastEvent.id
    ]_vars

\* A Low task has arrived behind a task already in CPU level 2.
C11_Witness ==
  /\ pc = "fold"
  /\ lastEvent.type = "kTaskArrival"
  /\ tasks[lastEvent.id].priority = "kLow"
  /\ Len(g_cpuTaskQueues[2]) >= 2
  /\ g_cpuTaskQueues[2][Len(g_cpuTaskQueues[2])].taskId = lastEvent.id

\* The lowest-indexed non-empty level of an array with at least one entry.
FirstNonEmpty(queues) ==
  CHOOSE i \in Levels : queues[i] # << >> /\ \A j \in 0 .. (i - 1) : queues[j] = << >>
AllOverdue(q) == \A k \in 1 .. Len(q) : Overdue(q[k])

\* C12: a CPU pass over an array with an entry selects a task, and takes it
\* from the lowest-indexed non-empty level, whether or not the tasks there are
\* overdue; so does the IO pass when it runs (IO argument idle).
C12_HighestLevelFirst ==
  Returned =>
    /\ Entries(foldedCpu) > 0 =>
         /\ chosenCpu.has
         /\ chosenCpu.from = FirstNonEmpty(foldedCpu)
         /\ chosenCpu.task \in SeqRange(foldedCpu[FirstNonEmpty(foldedCpu)])
         /\ resultAction.cpuTask = chosenCpu.task.taskId
    /\ (Entries(foldedIo) > 0 /\ currentIoTask = IDLE_TASK_ID) =>
         /\ chosenIo.has
         /\ chosenIo.from = FirstNonEmpty(foldedIo)
         /\ chosenIo.task \in SeqRange(foldedIo[FirstNonEmpty(foldedIo)])
         /\ resultAction.ioTask = chosenIo.task.taskId

\* A CPU pass has selected an overdue task from a level of overdue tasks while
\* an on-time task waited in a higher-indexed level.
C12_Witness ==
  /\ Returned
  /\ chosenCpu.has
  /\ AllOverdue(PickedFrom(foldedCpu, chosenCpu))
  /\ \E j \in Levels :
       /\ j > chosenCpu.from
       /\ \E t \in SeqRange(foldedCpu[j]) : OnTime(t)

\* The sequence q without its k-th entry.
RemoveAt(q, k) == SubSeq(q, 1, k - 1) \o SubSeq(q, k + 1, Len(q))
\* after is before with one entry equal to task taken out of level from and
\* appended to the next level of the ring, everything else in place.
MovedOne(before, after, from, task) ==
  /\ \E k \in 1 .. Len(before[from]) :
       /\ before[from][k] = task
       /\ after[from] = RemoveAt(before[from], k)
  /\ after[(from + 1) % NUM_PRIORITY_QUEUES]
       = Append(before[(from + 1) % NUM_PRIORITY_QUEUES], task)
  /\ \A i \in Levels \ {from, (from + 1) % NUM_PRIORITY_QUEUES} : after[i] = before[i]
  /\ Entries(after) = Entries(before)

\* C13 as claimed: in every reachable array state a pass that selects a task
\* takes one entry out of the source level and appends one entry to the next
\* level, leaving every other entry in its level and order and the number of
\* entries of the array as it was; a pass that selects nothing changes nothing.
C13_PassMovesOneEntry ==
  Returned =>
    /\ IF chosenCpu.has
       THEN MovedOne(foldedCpu, g_cpuTaskQueues, chosenCpu.from, chosenCpu.task)
       ELSE g_cpuTaskQueues = foldedCpu
    /\ IF chosenIo.has
       THEN MovedOne(foldedIo, g_ioTaskQueues, chosenIo.from, chosenIo.task)
       ELSE g_ioTaskQueues = foldedIo

\* Entry b of level q came back from IO, is on time, has a Normal on-time
\* neighbour with its deadline, and no entry of q scores below it.
BoostedPair(q, b) ==
  /\ b.status = "kIoEnd"
  /\ OnTime(b)
  /\ \E n \in SeqRange(q) :
       n.status = "kNormal" /\ n.deadline = b.deadline /\ n.taskId # b.taskId
  /\ \A t \in SeqRange(q) : Score(t, g_currentTime) >= Score(b, g_currentTime)

\* C14 as claimed: when the level a CPU pass picks from holds an on-time task
\* back from IO and an on-time Normal task with the same deadline, and no task
\* of the level scores lower than the task back from IO, the pass selects that
\* task, whichever of the two entered the level first.
C14_BoostBeatsEqualDeadline ==
  (Returned /\ chosenCpu.has) =>
    \A b \in SeqRange(PickedFrom(foldedCpu, chosenCpu)) :
      BoostedPair(PickedFrom(foldedCpu, chosenCpu), b) => chosenCpu.task = b

\* The score of section 4.2 of the specification, in tenths.
BoostScore(t) ==
  IF t.deadline > g_currentTime
  THEN (IF t.status = "kIoEnd" THEN 4 ELSE 10) * (t.deadline - g_currentTime)
  ELSE 10 * (100000 + (t.deadline - g_currentTime))
\* Entry k of level q came back from IO, is on time, has a Normal on-time
\* neighbour with its deadline, and every other entry of q scores above it.
BoostedPairStrict(q, k) ==
  /\ q[k].status = "kIoEnd"
  /\ q[k].deadline > g_currentTime
  /\ \E m \in 1 .. Len(q) : q[m].status = "kNormal" /\ q[m].deadline = q[k].deadline
  /\ \A m \in (1 .. Len(q)) \ {k} : BoostScore(q[m]) > BoostScore(q[k])

\* C14 amended: the same when every other task of the level scores strictly
\* above the task back from IO; a task that ties with it on the score and is
\* ahead of it in the level is selected instead.
C14_BoostBeatsStrictlyHigher ==
  (Returned /\ chosenCpu.has) =>
    \A k \in 1 .. Len(PickedFrom(foldedCpu, chosenCpu)) :
      BoostedPairStrict(PickedFrom(foldedCpu, chosenCpu), k)
        => chosenCpu.task = PickedFrom(foldedCpu, chosenCpu)[k]

\* Three tasks in the level: two Normal ones ahead, then the task back from IO
\* with the deadline of one of them and the lowest score, which was selected.
C14_Witness ==
  /\ Returned
  /\ chosenCpu.has
  /\ Len(PickedFrom(foldedCpu, chosenCpu)) = 3
  /\ PickedFrom(foldedCpu, chosenCpu)[1].status = "kNormal"
  /\ PickedFrom(foldedCpu, chosenCpu)[2].status = "kNormal"
  /\ BoostedPairStrict(PickedFrom(foldedCpu, chosenCpu), 3)
  /\ chosenCpu.task = PickedFrom(foldedCpu, chosenCpu)[3]

\* The entries of level q that share its minimal score, by position.
MinPositions(q) ==
  { k \in 1 .. Len(q) :
      \A m \in 1 .. Len(q) : Score(q[k], g_currentTime) <= Score(q[m], g_currentTime) }
\* The pass picked the earliest entry of the level among those of minimal score.
FirstMinimal(q, task) ==
  \E k \in MinPositions(q) : task = q[k] /\ \A m \in MinPositions(q) : k <= m
IsPrefix(s, t) == Len(s) <= Len(t) /\ SubSeq(t, 1, Len(s)) = s
\* Each level of after is the level of before without the entries of one id,
\* in their order, followed by at most one new entry.
OrderKept(before, after) ==
  \A i \in Levels :
    \/ after[i] = before[i]
    \/ \E id \in Occupants :
         \E kept \in {EraseId(before[i], id)} :
           IsPrefix(kept, after[i]) /\ Len(after[i]) <= Len(kept) + 1

\* C15: a pass selects, among the entries of the level it picks from that
\* share the minimal score, the one earliest in the level; and no step (event
\* or pass) reorders the entries it leaves in a level.
C15_TieBreakInsertionOrder ==
  [][ /\ pc' = "ret" =>
           /\ chosenCpu'.has =>
                FirstMinimal(foldedCpu'[chosenCpu'.from], chosenCpu'.task)
           /\ chosenIo'.has =>
                FirstMinimal(foldedIo'[chosenIo'.from], chosenIo'.task)
      /\ OrderKept(g_cpuTaskQueues, g_cpuTaskQueues')
      /\ OrderKept(g_ioTaskQueues, g_ioTaskQueues')
    ]_vars

\* Two tasks of one level tied on the minimal score and the first was selected.
C15_Witness ==
  /\ Returned
  /\ chosenCpu.has
  /\ Len(PickedFrom(foldedCpu, chosenCpu)) >= 2
  /\ {1, 2} \subseteq MinPositions(PickedFrom(foldedCpu, chosenCpu))
  /\ PickedFrom(foldedCpu, chosenCpu)[1].taskId # PickedFrom(foldedCpu, chosenCpu)[2].taskId
  /\ chosenCpu.task = PickedFrom(foldedCpu, chosenCpu)[1]

\* The pass picked from level q the earliest entry of minimal score at this time.
FirstMinimalAt(q, task, time) ==
  \E k \in 1 .. Len(q) :
    /\ task = q[k]
    /\ \A m \in 1 .. Len(q) : Score(q[k], time) <= Score(q[m], time)
    /\ \A m \in 1 .. (k - 1) : Score(q[k], time) < Score(q[m], time)

\* C16: folding an event of any type sets the clock to the event's time, be
\* it below the clock or not; the rest of the call leaves the clock alone, so
\* the clock after the call is the time of the last event of the batch, or its
\* old value when the batch is empty, and both passes select by the scores at
\* that value.
C16_ClockIsLastEventTime ==
  [][ /\ pc' = "fold" => g_currentTime' = lastEvent'.time
      /\ pc' = "ret" =>
           /\ g_currentTime' = g_currentTime
           /\ pc = "fold" => g_currentTime' = lastEvent.time
           /\ chosenCpu'.has =>
                FirstMinimalAt(foldedCpu'[chosenCpu'.from], chosenCpu'.task, g_currentTime')
           /\ chosenIo'.has =>
                FirstMinimalAt(foldedIo'[chosenIo'.from], chosenIo'.task, g_currentTime')
    ]_vars

\* A Timer event with time 5 was folded after the tasks with deadlines 10 and
\* 2 were queued in one CPU level: the clock is 5, whatever it was before.
C16_Witness ==
  /\ pc = "fold"
  /\ lastEvent.type = "kTimer"
  /\ lastEvent.time = 5
  /\ g_currentTime = 5
  /\ \E i \in Levels : IdsAt(g_cpuTaskQueues, i) = TaskIds
  /\ tasks[5].deadline = 10
  /\ tasks[7].deadline = 2

\* C17: erasing an id that is in no level of an array leaves the array as it
\* was: a Finish for an id not in the CPU array changes neither array, an
\* IoRequest for such an id leaves the CPU array alone, an IoEnd for an id not
\* in the IO array leaves the IO array alone; and after such a Finish the call
\* can go on to its selection passes and return.
C17_UnknownIdIgnored ==
  /\ [][ /\ (Folded("kTaskFinish") /\ lastEvent'.id \notin IdsIn(g_cpuTaskQueues)) =>
              /\ g_cpuTaskQueues' = g_cpuTaskQueues
              /\ g_ioTaskQueues' = g_ioTaskQueues
         /\ (Folded("kIoRequest") /\ lastEvent'.id \notin IdsIn(g_cpuTaskQueues)) =>
              g_cpuTaskQueues' = g_cpuTaskQueues
         /\ (Folded("kIoEnd") /\ lastEvent'.id \notin IdsIn(g_ioTaskQueues)) =>
              g_ioTaskQueues' = g_ioTaskQueues
       ]_vars
  /\ [](( pc = "fold" /\ lastEvent.type = "kTaskFinish" /\ ~lastEvent.queued)
          => ENABLED PolicySelect)

\* A Finish for task 7, which was not in the CPU array, was folded while
\* task 5 was queued there.
C17_Witness ==
  /\ pc = "fold"
  /\ lastEvent.type = "kTaskFinish"
  /\ lastEvent.id = 7
  /\ ~lastEvent.queued
  /\ IdsIn(g_cpuTaskQueues) = {5}

\* C18: folding a Finish takes the entries of the task out of every CPU level,
\* leaves the other CPU entries and the whole IO array as they were, also when
\* the task is in the IO array, where an IO pass of the same call still
\* selects it if no other id is queued for IO; folding a Timer changes no
\* level of either array.
C18_FinishTimerFrame ==
  [][ /\ Folded("kTaskFinish") =>
           /\ \A i \in Levels :
                g_cpuTaskQueues'[i]
                  = SelectSeq(g_cpuTaskQueues[i], LAMBDA t : t.taskId # lastEvent'.id)
           /\ g_ioTaskQueues' = g_ioTaskQueues
      /\ Folded("kTimer") =>
           /\ g_cpuTaskQueues' = g_cpuTaskQueues
           /\ g_ioTaskQueues' = g_ioTaskQueues
      /\ (EndsAfter("kTaskFinish") /\ currentIoTask' = IDLE_TASK_ID
            /\ IdsIn(g_ioTaskQueues) = {lastEvent.id}) =>
           resultAction'.ioTask = lastEvent.id
    ]_vars

\* A Finish for task 7 was folded while task 7 was queued for IO and task 5
\* for the CPU; task 7 is still in the IO array.
C18_Witness ==
  /\ pc = "fold"
  /\ lastEvent.type = "kTaskFinish"
  /\ lastEvent.id = 7
  /\ 7 \in IdsIn(g_ioTaskQueues)
  /\ 5 \in IdsIn(g_cpuTaskQueues)

\* C19 as claimed: with lifecycle events and the occupants of each call being
\* the ids the previous call returned, no returned Action names one task for
\* both the CPU and the IO device.
C19_NoTaskOnBothResources ==
  Returned =>
    ~(resultAction.cpuTask = resultAction.ioTask /\ resultAction.cpuTask # IDLE_TASK_ID)

\* C20 as claimed: with lifecycle events and the occupants of each call being
\* the ids the previous call returned, a non-zero cpuTask returned is in the
\* CPU array when the call ends and a non-zero ioTask is in the IO array.
C20_DispatchedAreQueued ==
  Returned =>
    /\ resultAction.cpuTask # IDLE_TASK_ID => resultAction.cpuTask \in IdsIn(g_cpuTaskQueues)
    /\ resultAction.ioTask # IDLE_TASK_ID => resultAction.ioTask \in IdsIn(g_ioTaskQueues)
====
